---- MODULE Spec2Model ----
(***************************************************************************)
(* A model of the redux "edge" renderer walkthrough: the text reducer, the *)
(* store it is handed to, the two console renderers (basic.js and its      *)
(* unconditional predecessor), the stateful React View (react/view.js) and *)
(* the connect() higher-order component (react/connect.js).                *)
(*                                                                         *)
(* JavaScript is single threaded and store.dispatch is synchronous, so one *)
(* dispatch (reduce, then notify every listener) is one step of the model. *)
(* SpecSteps takes the same dispatch one listener call at a time, to show  *)
(* what may and may not happen while a notification is in progress.        *)
(***************************************************************************)
EXTENDS Integers, Sequences, FiniteSets

VARIABLES
  state,          \* the store's current state (a JS value)
  listeners,      \* the store's listener array, in registration order
  handles,        \* the closures returned by store.subscribe, in creation order
  prevText,       \* basic.js: the text rendered on the last run
  rendered,       \* basic.js: the values View(text) has printed, in order
  seen,           \* basic.js: the values render() has read from getState(), in order
  plainRendered,  \* the unconditional render: the values View(text) has printed
  comps,          \* the React components: lifecycle, this.state, this.cancelSubscription
  calls,          \* the listener invocations of the most recent dispatch
  last,           \* the most recent dispatch: its action and the store around it
  actionLog,      \* every action dispatched so far, in order
  op,             \* the most recent subscribe / unsubscribe call on the store
  driver,         \* the simulated user: userInput, index, nextIsRandom, the interval
  ev,             \* the most recent event handled: a key, a bound action, a mount
  stack           \* the dispatches in progress, innermost last, each with the
                  \* listeners it has still to call

vars == <<state, listeners, handles, prevText, rendered, seen, plainRendered,
          comps, calls, last, actionLog, op, driver, ev, stack>>

----------------------------------------------------------------------------
(* Bounds of the model *)

\* console renderer runs: the number of dispatches and of store.subscribe calls
MaxDispatch == 3
MaxHandles == 2
\* store runs with both renderers subscribed: dispatches, store.subscribe calls
MaxStoreDispatch == 2
MaxStoreHandles == 2
\* React runs: the number of dispatches and of component instances constructed
MaxReactDispatch == 2
MaxComps == 2
\* keyboard runs and runs of bound actions: the number of dispatches
MaxKeyDispatch == 2
\* runs taken one listener call at a time: dispatches, store.subscribe calls
MaxStepDispatch == 2
MaxStepHandles == 2

\* the keys a user types
Chars == {"a", "b"}
\* action types the reducer has no case for
OtherTypes == {"RANDOM"}

Comps == 1 .. MaxComps

----------------------------------------------------------------------------
(* JavaScript values: undefined and strings (sequences of characters) *)

Undef == [def |-> FALSE, val |-> <<>>]
Str(s) == [def |-> TRUE, val |-> s]

\* String(v), as the + operator applies it to a non-string operand
toStr(v) ==
  IF v.def THEN v.val ELSE <<"u", "n", "d", "e", "f", "i", "n", "e", "d">>

Min(a, b) == IF a < b THEN a ELSE b
Max(a, b) == IF a > b THEN a ELSE b

\* String.prototype.substr(start, length) for start >= 0
substr(s, start, length) ==
  LET from == Min(start, Len(s))
      n    == Min(Max(length, 0), Len(s) - from)
  IN  IF n <= 0 THEN <<>> ELSE SubSeq(s, from + 1, from + n)

\* Array.prototype.indexOf: the first index (from 0) holding x, or -1
indexOf(arr, x) ==
  IF \E i \in 1 .. Len(arr) : arr[i] = x
    THEN (CHOOSE i \in 1 .. Len(arr) :
            arr[i] = x /\ \A j \in 1 .. (i - 1) : arr[j] /= x) - 1
    ELSE -1

\* Array.prototype.splice(index, 1): a negative index counts from the end
splice1(arr, index) ==
  LET at == IF index < 0 THEN Max(Len(arr) + index, 0) ELSE Min(index, Len(arr))
  IN  [i \in 1 .. (IF at < Len(arr) THEN Len(arr) - 1 ELSE Len(arr)) |->
         IF i <= at THEN arr[i] ELSE arr[i + 1]]

Range(arr) == {arr[i] : i \in 1 .. Len(arr)}

\* the number of entries of arr equal to x
RECURSIVE Count(_, _)
Count(arr, x) ==
  IF arr = <<>> THEN 0
  ELSE (IF Head(arr) = x THEN 1 ELSE 0) + Count(Tail(arr), x)

----------------------------------------------------------------------------
(* Actions and the reducer *)

insertCharacter(char) == [type |-> "CHARACTER_TYPED", char |-> char]
removeCharacter == [type |-> "BACKSPACE", char |-> Undef]
otherAction(t) == [type |-> t, char |-> Undef]
\* the action createStore dispatches to obtain the initial state
initAction == [type |-> "@@redux/INIT", char |-> Undef]

\* a reducer whose default branch edits the text
reducer_AppendsOnDefault(s, action) ==
  LET st == IF s = Undef THEN Str(<<>>) ELSE s
  IN  CASE action.type = "CHARACTER_TYPED" -> Str(st.val \o toStr(action.char))
        [] action.type = "BACKSPACE" -> Str(substr(st.val, 0, Len(st.val) - 1))
        [] OTHER -> Str(st.val \o <<"a">>)

\* a reducer whose BACKSPACE drops the first character, not the last
reducer_BackspaceKeepsLast(s, action) ==
  LET st == IF s = Undef THEN Str(<<>>) ELSE s
  IN  CASE action.type = "CHARACTER_TYPED" -> Str(st.val \o toStr(action.char))
        [] action.type = "BACKSPACE" -> Str(substr(st.val, 1, Len(st.val) - 1))
        [] OTHER -> st

reducer(s, action) ==
  LET st == IF s = Undef THEN Str(<<>>) ELSE s
  IN  CASE action.type = "CHARACTER_TYPED" -> Str(st.val \o toStr(action.char))
        [] action.type = "BACKSPACE" -> Str(substr(st.val, 0, Len(st.val) - 1))
        [] OTHER -> st

----------------------------------------------------------------------------
(* The store (redux createStore): subscribe, unsubscribe *)

\* listener callbacks: render of basic.js, the unconditional render, and the
\* arrow functions the two components pass to store.subscribe
renderCb == [kind |-> "render", comp |-> 0]
plainCb == [kind |-> "renderPlain", comp |-> 0]
viewCb(c) == [kind |-> "view", comp |-> c]
connectedCb(c) == [kind |-> "connected", comp |-> c]

\* store.subscribe(listener): the listener is pushed and a closure returned
subscribe(ls, hs, listener) ==
  [listeners |-> Append(ls, listener),
   handles   |-> Append(hs, [listener |-> listener, isSubscribed |-> TRUE]),
   handle    |-> Len(hs) + 1]

\* an unsubscribe without the isSubscribed guard
unsubscribe_NoGuard(ls, hs, h) ==
  [listeners |-> splice1(ls, indexOf(ls, hs[h].listener)),
   handles   |-> [hs EXCEPT ![h].isSubscribed = FALSE]]

\* an unsubscribe that filters out every registration of the listener
unsubscribe_RemovesAll(ls, hs, h) ==
  IF ~hs[h].isSubscribed
    THEN [listeners |-> ls, handles |-> hs]
    ELSE [listeners |-> SelectSeq(ls, LAMBDA l : l /= hs[h].listener),
          handles   |-> [hs EXCEPT ![h].isSubscribed = FALSE]]

\* the closure returned by subscribe: a second call returns at once
unsubscribe(ls, hs, h) ==
  IF ~hs[h].isSubscribed
    THEN [listeners |-> ls, handles |-> hs]
    ELSE [listeners |-> splice1(ls, indexOf(ls, hs[h].listener)),
          handles   |-> [hs EXCEPT ![h].isSubscribed = FALSE]]

----------------------------------------------------------------------------
(* The listeners.  Each takes the world its closure can write (w) and the  *)
(* value store.getState() returns while it runs (st).                      *)

\* a render that never stores the text it rendered
render_ForgetsPrevText(w, st) ==
  LET text == st
      w1   == [w EXCEPT !.seen = Append(@, text)]
  IN  IF w1.prevText /= text
        THEN [w1 EXCEPT !.rendered = Append(@, text)]
        ELSE w1

\* a render that does not compare with prevText
render_NoCompare(w, st) ==
  LET text == st
      w1   == [w EXCEPT !.seen = Append(@, text)]
  IN  [w1 EXCEPT !.prevText = text, !.rendered = Append(@, text)]

\* basic.js: render only when the text differs from the one rendered last
render(w, st) ==
  LET text == st
      w1   == [w EXCEPT !.seen = Append(@, text)]
  IN  IF w1.prevText /= text
        THEN [w1 EXCEPT !.prevText = text, !.rendered = Append(@, text)]
        ELSE w1

\* a render whose text was read once, before any dispatch
renderPlain_TextReadOnce(w, st) ==
  [w EXCEPT !.plainRendered = Append(@, Str(<<>>))]

\* the unconditional render: View(store.getState())
renderPlain(w, st) ==
  LET text == st
  IN  [w EXCEPT !.plainRendered = Append(@, text)]

\* React's setState(partial): the partial state is merged into this.state
setState(prev, partial) ==
  [k \in DOMAIN prev \cup DOMAIN partial |->
     IF k \in DOMAIN partial THEN partial[k] ELSE prev[k]]

\* the mapState the walkthrough connects its View with
mapState(st) == [text |-> st]

\* view.js: () => this.setState({ text: store.getState() }); React ignores
\* setState on a component that is not mounted
viewListener(w, c, st) ==
  IF w.comps[c].status = "mounted"
    THEN [w EXCEPT !.comps[c].state = setState(@, [text |-> st])]
    ELSE w

\* a subscription callback that does not set the component's state
connectedListener_NoSetState(w, c, st) == w

\* connect.js: () => this.setState(mapState(store.getState()))
connectedListener(w, c, st) ==
  IF w.comps[c].status = "mounted"
    THEN [w EXCEPT !.comps[c].state = setState(@, mapState(st))]
    ELSE w

\* one listener call; calls records the call and what getState() gave it
invoke(listener, w, st) ==
  LET w1 == [w EXCEPT !.calls = Append(@, [listener |-> listener, saw |-> st])]
  IN  CASE listener.kind = "render"      -> render(w1, st)
        [] listener.kind = "renderPlain" -> renderPlain(w1, st)
        [] listener.kind = "view"        -> viewListener(w1, listener.comp, st)
        [] listener.kind = "connected"   -> connectedListener(w1, listener.comp, st)

\* dispatch's loop over the listener array
RECURSIVE notify(_, _, _)
notify(ls, w, st) ==
  IF ls = <<>> THEN w ELSE notify(Tail(ls), invoke(Head(ls), w, st), st)

\* what the listeners can write, with the call record of a new dispatch
World ==
  [prevText |-> prevText, rendered |-> rendered, seen |-> seen,
   plainRendered |-> plainRendered, comps |-> comps, calls |-> <<>>]

NoOp == [name |-> "none", h |-> 0, wasSubscribed |-> FALSE,
         listeners |-> <<>>, state |-> Undef]

Record(action, next, w) ==
  /\ state' = next
  /\ prevText' = w.prevText
  /\ rendered' = w.rendered
  /\ seen' = w.seen
  /\ plainRendered' = w.plainRendered
  /\ comps' = w.comps
  /\ calls' = w.calls
  /\ last' = [n |-> Len(actionLog) + 1, action |-> action, before |-> state,
              after |-> next, listeners |-> listeners, handles |-> handles,
              prevText |-> prevText, rendered |-> Len(rendered),
              plainRendered |-> Len(plainRendered), comps |-> comps]
  /\ actionLog' = Append(actionLog, action)
  /\ op' = NoOp
  /\ UNCHANGED <<listeners, handles>>

\* store.dispatch(action): reduce, replace the state, then call every listener
Dispatch(action) ==
  LET next == reducer(state, action)
  IN  Record(action, next, notify(listeners, World, next))

\* the actions the walkthrough dispatches
Actions ==
  {insertCharacter(Str(<<c>>)) : c \in Chars} \cup {removeCharacter}
    \cup {otherAction(t) : t \in OtherTypes}

----------------------------------------------------------------------------
(* Top-level code using the store *)

Subscribed(listener) ==
  LET s == subscribe(listeners, handles, listener)
  IN  /\ listeners' = s.listeners
      /\ handles' = s.handles
      /\ op' = [name |-> "subscribe", h |-> s.handle, wasSubscribed |-> FALSE,
                listeners |-> listeners, state |-> state]

Unsubscribed(h) ==
  LET u == unsubscribe(listeners, handles, h)
  IN  /\ listeners' = u.listeners
      /\ handles' = u.handles
      /\ op' = [name |-> "unsubscribe", h |-> h,
                wasSubscribed |-> handles[h].isSubscribed,
                listeners |-> listeners, state |-> state]

\* store.subscribe(render()): render runs once as it is subscribed
SubscribeRender_CallsRender ==
  LET w == render(World, state)
  IN  /\ Subscribed(renderCb)
      /\ prevText' = w.prevText
      /\ rendered' = w.rendered
      /\ seen' = w.seen
      /\ UNCHANGED <<state, plainRendered, comps, calls, last, actionLog>>

\* basic.js: store.subscribe(render)
SubscribeRender ==
  /\ Subscribed(renderCb)
  /\ UNCHANGED <<state, prevText, rendered, seen, plainRendered, comps, calls,
                 last, actionLog>>

\* the unconditional renderer: store.subscribe(render)
SubscribeRenderPlain ==
  /\ Subscribed(plainCb)
  /\ UNCHANGED <<state, prevText, rendered, seen, plainRendered, comps, calls,
                 last, actionLog>>

\* a call of a closure store.subscribe returned to top-level code
CallHandle(h) ==
  /\ handles[h].listener.comp = 0
  /\ Unsubscribed(h)
  /\ UNCHANGED <<state, prevText, rendered, seen, plainRendered, comps, calls,
                 last, actionLog>>

----------------------------------------------------------------------------
(* The React components *)

\* the action creators the walkthrough hands to connect, by name
ActionsToDispatch ==
  [n \in {"insertCharacter", "removeCharacter"} |-> n]

\* no bound actions (a component that is not a ConnectedComponent)
NoActions == [n \in {} |-> n]

\* the i-th of the arguments a function was called with
Arg(args, i) == IF i <= Len(args) THEN args[i] ELSE Undef

\* the action the named creator returns for the arguments
create(creator, args) ==
  IF creator = "insertCharacter" THEN insertCharacter(Arg(args, 1))
  ELSE removeCharacter

\* a binding loop in which every callable closes over the last key
bindActions_LastKey(actionsToDispatch) ==
  [action \in DOMAIN actionsToDispatch |-> actionsToDispatch["removeCharacter"]]

\* connect.js: this.actions[action] = (...args) =>
\*   store.dispatch(actionsToDispatch[action](...args)), for every key
bindActions(actionsToDispatch) ==
  [action \in DOMAIN actionsToDispatch |-> actionsToDispatch[action]]

NoComp == [status |-> "none", kind |-> "none", state |-> [text |-> Undef],
           cancelSubscription |-> 0, keyup |-> FALSE, actions |-> NoActions]

\* view.js, View.constructor
ViewConstructor(c) ==
  /\ comps[c].status = "none"
  /\ Subscribed(viewCb(c))
  /\ comps' = [comps EXCEPT ![c] =
       [status |-> "mounted", kind |-> "view", state |-> [text |-> state],
        cancelSubscription |-> Len(handles) + 1, keyup |-> TRUE,
        actions |-> NoActions]]
  /\ UNCHANGED <<state, prevText, rendered, seen, plainRendered, calls, last,
                 actionLog>>

\* connect.js, ConnectedComponent.constructor, the store taken from the
\* context; React then constructs the wrapped View, which listens to keyup
ConnectedConstructor(c) ==
  /\ comps[c].status = "none"
  /\ Subscribed(connectedCb(c))
  /\ comps' = [comps EXCEPT ![c] =
       [status |-> "mounted", kind |-> "connected", state |-> mapState(state),
        cancelSubscription |-> Len(handles) + 1, keyup |-> TRUE,
        actions |-> bindActions(ActionsToDispatch)]]
  /\ UNCHANGED <<state, prevText, rendered, seen, plainRendered, calls, last,
                 actionLog>>

\* a componentWillUnmount that leaves the keyup listener on the document
ViewComponentWillUnmount_KeepsKeyup(c) ==
  /\ comps[c].status = "mounted" /\ comps[c].kind = "view"
  /\ Unsubscribed(comps[c].cancelSubscription)
  /\ comps' = [comps EXCEPT ![c].status = "dead"]
  /\ UNCHANGED <<state, prevText, rendered, seen, plainRendered, calls, last,
                 actionLog>>

\* a componentWillUnmount that leaves the subscription in place
ViewComponentWillUnmount_NoCancel(c) ==
  /\ comps[c].status = "mounted" /\ comps[c].kind = "view"
  /\ comps' = [comps EXCEPT ![c].status = "dead", ![c].keyup = FALSE]
  /\ op' = NoOp
  /\ UNCHANGED <<state, listeners, handles, prevText, rendered, seen,
                 plainRendered, calls, last, actionLog>>

\* view.js, View.componentWillUnmount
ViewComponentWillUnmount(c) ==
  /\ comps[c].status = "mounted" /\ comps[c].kind = "view"
  /\ Unsubscribed(comps[c].cancelSubscription)
  /\ comps' = [comps EXCEPT ![c].status = "dead", ![c].keyup = FALSE]
  /\ UNCHANGED <<state, prevText, rendered, seen, plainRendered, calls, last,
                 actionLog>>

\* a componentWillUnmount that leaves the subscription in place
ConnectedComponentWillUnmount_NoCancel(c) ==
  /\ comps[c].status = "mounted" /\ comps[c].kind = "connected"
  /\ comps' = [comps EXCEPT ![c].status = "dead", ![c].keyup = FALSE]
  /\ op' = NoOp
  /\ UNCHANGED <<state, listeners, handles, prevText, rendered, seen,
                 plainRendered, calls, last, actionLog>>

\* connect.js, ConnectedComponent.componentWillUnmount; the wrapped View is
\* unmounted with it and removes its keyup listener
ConnectedComponentWillUnmount(c) ==
  /\ comps[c].status = "mounted" /\ comps[c].kind = "connected"
  /\ Unsubscribed(comps[c].cancelSubscription)
  /\ comps' = [comps EXCEPT ![c].status = "dead", ![c].keyup = FALSE]
  /\ UNCHANGED <<state, prevText, rendered, seen, plainRendered, calls, last,
                 actionLog>>

----------------------------------------------------------------------------
(* Events: keys pressed and bound actions called *)

KeyBackspace == <<"B", "a", "c", "k", "s", "p", "a", "c", "e">>
KeyEnter == <<"E", "n", "t", "e", "r">>
\* the values of event.key delivered
Keys == {KeyBackspace, KeyEnter} \cup {<<ch>> : ch \in Chars}

\* the argument lists a bound action is called with
BoundArgs == {<<>>} \cup {<<Str(<<ch>>)>> : ch \in Chars}

\* an onCharacter that takes every non-empty key for a character
onCharacter_AnyLength(key) ==
  IF key = KeyBackspace THEN <<[name |-> "removeCharacter", args |-> <<>>]>>
  ELSE IF Len(key) >= 1
    THEN <<[name |-> "insertCharacter", args |-> <<Str(key)>>]>>
  ELSE <<>>

\* View.onCharacter: the action creator called for event.key, if any
onCharacter(key) ==
  IF key = KeyBackspace THEN <<[name |-> "removeCharacter", args |-> <<>>]>>
  ELSE IF Len(key) = 1
    THEN <<[name |-> "insertCharacter", args |-> <<Str(key)>>]>>
  ELSE <<>>

\* the action a View's call reaches the store with: view.js dispatches the
\* creator's action itself, the connected View calls the prop of that name
viaProps(c, call) ==
  IF comps[c].kind = "view" THEN create(call.name, call.args)
  ELSE create(comps[c].actions[call.name], call.args)

Event(kind, c, name, arg) ==
  /\ ev' = [kind |-> kind, comp |-> c, name |-> name, arg |-> arg,
            dispatched |-> Len(actionLog), state |-> state, threw |-> FALSE]
  /\ UNCHANGED stack

Thrown(kind, c, name, arg) ==
  /\ ev' = [kind |-> kind, comp |-> c, name |-> name, arg |-> arg,
            dispatched |-> Len(actionLog), state |-> state, threw |-> TRUE]
  /\ UNCHANGED stack

\* connect.js, ConnectedComponent.constructor, mounted as part_001 mounts it:
\* <ConnectedComponent store={store} /> with no store in the context, so
\* const { store } = context is undefined and store.getState() throws
ConnectedConstructorNoContext(c) ==
  /\ comps[c].status = "none"
  /\ comps' = [comps EXCEPT ![c].status = "failed", ![c].kind = "connected"]
  /\ Thrown("mount", c, "props", <<>>)
  /\ UNCHANGED <<state, listeners, handles, prevText, rendered, seen,
                 plainRendered, calls, last, actionLog, op, driver>>

\* an action object without a type property
NoType == "undefined"
\* malformed actions: no type, or CHARACTER_TYPED without its char
MalformedActions == {otherAction(NoType), insertCharacter(Undef)}

\* store.dispatch as called with any object: redux throws on an action whose
\* type is undefined, before the reducer runs
StoreDispatch(action) ==
  IF action.type = NoType
    THEN /\ Thrown("dispatch", 0, "", <<>>)
         /\ UNCHANGED <<state, listeners, handles, prevText, rendered, seen,
                        plainRendered, comps, calls, last, actionLog, op,
                        driver>>
    ELSE /\ Dispatch(action)
         /\ Event("dispatch", 0, "", <<>>)
         /\ UNCHANGED driver

\* a keyup event reaches the listener a mounted View put on the document
KeyUp(c, key) ==
  /\ comps[c].keyup
  /\ LET todo == onCharacter(key)
     IN  IF todo = <<>>
           THEN UNCHANGED <<state, listeners, handles, prevText, rendered, seen,
                            plainRendered, comps, calls, last, actionLog, op>>
           ELSE Dispatch(viaProps(c, todo[1]))
  /\ Event("keyup", c, "", key)
  /\ UNCHANGED driver

\* a call of the callable connect bound under name, by the wrapped component
\* or by whoever still holds the prop: the closure tests nothing, and
\* componentWillUnmount leaves this.actions as it is
InvokeBound(c, name, args) ==
  /\ name \in DOMAIN comps[c].actions
  /\ Dispatch(create(comps[c].actions[name], args))
  /\ Event("bound", c, name, args)
  /\ UNCHANGED driver

\* a dispatch during which a component goes away: connected component p is
\* notified, its setState re-renders it at once, and what it renders no longer
\* holds component c, so React calls c's componentWillUnmount while the store
\* is still walking the listeners it held when the dispatch began
DispatchUnmounting(action, p, c) ==
  LET cb   == IF comps[c].kind = "view" THEN viewCb(c) ELSE connectedCb(c)
      ip   == indexOf(listeners, connectedCb(p))
      ic   == indexOf(listeners, cb)
      next == reducer(state, action)
      w1   == notify(SubSeq(listeners, 1, ip + 1), World, next)
      u    == unsubscribe(listeners, handles, comps[c].cancelSubscription)
      w2   == [w1 EXCEPT !.comps[c].status = "dead", !.comps[c].keyup = FALSE]
      w3   == notify(SubSeq(listeners, ip + 2, Len(listeners)), w2, next)
  IN  /\ p /= c
      /\ comps[p].status = "mounted" /\ comps[p].kind = "connected"
      /\ comps[c].status = "mounted"
      /\ ip < ic
      /\ state' = next
      /\ listeners' = u.listeners
      /\ handles' = u.handles
      /\ prevText' = w3.prevText
      /\ rendered' = w3.rendered
      /\ seen' = w3.seen
      /\ plainRendered' = w3.plainRendered
      /\ comps' = w3.comps
      /\ calls' = w3.calls
      /\ last' = [n |-> Len(actionLog) + 1, action |-> action, before |-> state,
                  after |-> next, listeners |-> listeners, handles |-> handles,
                  prevText |-> prevText, rendered |-> Len(rendered),
                  plainRendered |-> Len(plainRendered), comps |-> comps]
      /\ actionLog' = Append(actionLog, action)
      /\ op' = [name |-> "unsubscribe", h |-> comps[c].cancelSubscription,
                wasSubscribed |-> TRUE, listeners |-> listeners,
                state |-> next]
      /\ Event("unmount", c, "", <<>>)
      /\ UNCHANGED driver

----------------------------------------------------------------------------
(* What a connected component renders *)

\* names a prop can have: one mapState derives, one that is a bound action,
\* one that only a parent passes
PropNames == {"text", "insertCharacter", "title"}

\* a callable connect bound to the store, as a prop value
callable(creator) == [bound |-> creator]

\* the records over some of the names with the given values
Props(values) == UNION {[d -> values] : d \in SUBSET PropNames}

\* this.props, this.state and this.actions of a ConnectedComponent, for any
\* parent and any mapState and actionsToDispatch connect was called with
ParentProps == Props({Str(<<"a">>), Str(<<"b">>)})
DerivedStates == Props({Str(<<>>), Str(<<"a">>)})
BoundActions == Props({callable(n) : n \in DOMAIN ActionsToDispatch})

\* JSX spread attributes: { ...target, ...source }, the later one wins
spread(target, source) ==
  [k \in DOMAIN target \cup DOMAIN source |->
     IF k \in DOMAIN source THEN source[k] ELSE target[k]]

\* a render that spreads the parent's props last
passedProps_ParentLast(props, st, actions) ==
  spread(spread(st, actions), props)

\* connect.js, ConnectedComponent.render: the props of
\* <ComponentToConnect {...this.props} {...this.state} {...this.actions} />
passedProps(props, st, actions) ==
  spread(spread(props, st), actions)

\* React renders the connected component it has constructed
ConnectedRender ==
  /\ ev.kind = "constructed"
  /\ ev' = [ev EXCEPT !.kind = "rendered",
                       !.passed = passedProps(ev.props, ev.derived, ev.actions)]
  /\ UNCHANGED <<state, listeners, handles, prevText, rendered, seen,
                 plainRendered, comps, calls, last, actionLog, op, driver,
                 stack>>

----------------------------------------------------------------------------
(* Specifications *)

\* no timer is installed
NoDriver == [userInput |-> <<>>, index |-> 0, nextIsRandom |-> FALSE,
             interval |-> "none", program |-> "none"]

\* no event handler ran in this step
NoEv == [kind |-> "none", comp |-> 0, name |-> "", arg |-> <<>>,
         dispatched |-> 0, state |-> Undef, threw |-> FALSE]

\* a step taken by neither the timer nor an event handler
Quiet == ev' = NoEv /\ UNCHANGED <<driver, stack>>

----------------------------------------------------------------------------
(* A dispatch taken one listener call at a time *)

\* a render that dispatches BACKSPACE whenever it is handed a text
dispatchedBy_RenderBackspaces(listener, st) ==
  IF listener.kind = "render" /\ st /= Str(<<>>)
    THEN <<removeCharacter>>
    ELSE <<>>

\* the actions the body of a listener hands to store.dispatch: render calls
\* getState and View, the two subscription callbacks call getState and
\* setState, and what setState re-renders (View.render) dispatches nothing
dispatchedBy(listener, st) ==
  CASE listener.kind = "render"      -> <<>>
    [] listener.kind = "renderPlain" -> <<>>
    [] listener.kind = "view"        -> <<>>
    [] listener.kind = "connected"   -> <<>>

\* store.dispatch up to its loop: reduce, replace the state and take the
\* listeners to call
Reduce(action) ==
  LET next == reducer(state, action)
  IN  /\ state' = next
      /\ actionLog' = Append(actionLog, action)
      /\ last' = [n |-> Len(actionLog) + 1, action |-> action, before |-> state,
                  after |-> next, listeners |-> listeners, handles |-> handles,
                  prevText |-> prevText, rendered |-> Len(rendered),
                  plainRendered |-> Len(plainRendered), comps |-> comps]

\* store.dispatch(action) called by code that is no listener; JavaScript runs
\* a handler to completion, so no dispatch is in progress then
DispatchBegin(action) ==
  /\ stack = <<>>
  /\ Reduce(action)
  /\ stack' = <<[action |-> action, pending |-> listeners]>>
  /\ calls' = <<>>
  /\ op' = NoOp
  /\ ev' = NoEv
  /\ UNCHANGED <<listeners, handles, prevText, rendered, seen, plainRendered,
                 comps, driver>>

\* the innermost dispatch calls its next listener; a listener that dispatches
\* enters store.dispatch again before the loop goes on
NotifyStep ==
  /\ stack /= <<>>
  /\ stack[Len(stack)].pending /= <<>>
  /\ LET listener == Head(stack[Len(stack)].pending)
         w        == invoke(listener, [World EXCEPT !.calls = calls], state)
         todo     == dispatchedBy(listener, state)
         rest     == [stack EXCEPT ![Len(stack)].pending = Tail(@)]
     IN  /\ prevText' = w.prevText
         /\ rendered' = w.rendered
         /\ seen' = w.seen
         /\ plainRendered' = w.plainRendered
         /\ comps' = w.comps
         /\ calls' = w.calls
         /\ IF todo = <<>>
              THEN /\ stack' = rest
                   /\ UNCHANGED <<state, actionLog, last>>
              ELSE /\ Reduce(Head(todo))
                   /\ stack' = Append(rest, [action |-> Head(todo),
                                              pending |-> listeners])
  /\ ev' = NoEv
  /\ UNCHANGED <<listeners, handles, op, driver>>

\* the innermost dispatch has called all its listeners and returns
DispatchEnd ==
  /\ stack /= <<>>
  /\ stack[Len(stack)].pending = <<>>
  /\ stack' = SubSeq(stack, 1, Len(stack) - 1)
  /\ ev' = NoEv
  /\ UNCHANGED <<state, listeners, handles, prevText, rendered, seen,
                 plainRendered, comps, calls, last, actionLog, op, driver>>

----------------------------------------------------------------------------
(* The simulated input: a timer that types userInput into the store *)

MaxInput == 6

\* every fifth character is followed by a RANDOM action
RandomEvery == 5

\* const userInput = `This is some amazing text!`
UserInput ==
  <<"T", "h", "i", "s", " ", "i", "s", " ", "s", "o", "m", "e", " ",
    "a", "m", "a", "z", "i", "n", "g", " ", "t", "e", "x", "t", "!">>

\* the text the timer types: the program's own, or any short text
Inputs == {UserInput} \cup UNION {[1..n -> Chars] : n \in 0..MaxInput}

\* basic.js (change-detecting render, RANDOM every fifth character),
\* part_000 (unconditional render, same timer) and the first program of
\* rendering.md (unconditional render, a timer that types characters only)
Programs == {"basic", "part_000", "simple"}

\* userInput[i] in JavaScript (0-based), undefined past the end
charAt(input, i) ==
  IF i < Len(input) THEN Str(<<input[i + 1]>>) ELSE Undef

\* nothing of the store is touched by a tick that only stops the timer
StoreUntouched ==
  UNCHANGED <<state, listeners, handles, prevText, rendered, seen,
              plainRendered, comps, calls, last, actionLog, op>>

\* a timer callback that looks at nextIsRandom before it looks at index
Tick_RandomFirst ==
  /\ driver.interval = "set"
  /\ driver.program \in {"basic", "part_000"}
  /\ IF driver.nextIsRandom
       THEN /\ Dispatch(otherAction("RANDOM"))
            /\ driver' = [driver EXCEPT !.nextIsRandom = FALSE]
       ELSE IF driver.index < Len(driver.userInput)
         THEN /\ Dispatch(insertCharacter(charAt(driver.userInput, driver.index)))
              /\ driver' = [driver EXCEPT
                              !.index = @ + 1,
                              !.nextIsRandom = (driver.index + 1) % RandomEvery = 0]
         ELSE /\ StoreUntouched
              /\ driver' = [driver EXCEPT !.interval = "cleared"]
  /\ Event("tick", 0, "", <<>>)

\* a timer callback that computes the flag from index before incrementing it
Tick_FlagBeforeIncrement ==
  /\ driver.interval = "set"
  /\ driver.program \in {"basic", "part_000"}
  /\ IF driver.index < Len(driver.userInput)
       THEN IF driver.nextIsRandom
              THEN /\ Dispatch(otherAction("RANDOM"))
                   /\ driver' = [driver EXCEPT !.nextIsRandom = FALSE]
              ELSE /\ Dispatch(insertCharacter(charAt(driver.userInput, driver.index)))
                   /\ driver' = [driver EXCEPT
                                   !.index = @ + 1,
                                   !.nextIsRandom = driver.index % RandomEvery = 0]
       ELSE /\ StoreUntouched
            /\ driver' = [driver EXCEPT !.interval = "cleared"]
  /\ Event("tick", 0, "", <<>>)

\* basic.js and part_000: the setInterval callback
Tick ==
  /\ driver.interval = "set"
  /\ driver.program \in {"basic", "part_000"}
  /\ IF driver.index < Len(driver.userInput)
       THEN IF driver.nextIsRandom
              THEN /\ Dispatch(otherAction("RANDOM"))
                   /\ driver' = [driver EXCEPT !.nextIsRandom = FALSE]
              ELSE /\ Dispatch(insertCharacter(charAt(driver.userInput, driver.index)))
                   /\ driver' = [driver EXCEPT
                                   !.index = @ + 1,
                                   !.nextIsRandom = (driver.index + 1) % RandomEvery = 0]
       ELSE /\ StoreUntouched
            /\ driver' = [driver EXCEPT !.interval = "cleared"]
  /\ Event("tick", 0, "", <<>>)

\* rendering.md, first program: the setInterval callback types characters only
TickChars ==
  /\ driver.interval = "set"
  /\ driver.program = "simple"
  /\ IF driver.index < Len(driver.userInput)
       THEN /\ Dispatch(insertCharacter(charAt(driver.userInput, driver.index)))
            /\ driver' = [driver EXCEPT !.index = @ + 1]
       ELSE /\ StoreUntouched
            /\ driver' = [driver EXCEPT !.interval = "cleared"]
  /\ Event("tick", 0, "", <<>>)

\* the program as it stands when its top-level code has run: the store
\* created, render subscribed, the timer installed and no tick fired yet
InitDriver ==
  \E program \in Programs, input \in Inputs :
    LET s == subscribe(<<>>, <<>>,
                       IF program = "basic" THEN renderCb ELSE plainCb)
    IN  /\ state = reducer(Undef, initAction)
        /\ listeners = s.listeners
        /\ handles = s.handles
        /\ prevText = Undef
        /\ rendered = <<>>
        /\ seen = <<>>
        /\ plainRendered = <<>>
        /\ comps = [c \in Comps |-> NoComp]
        /\ calls = <<>>
        /\ last = [n |-> 0, action |-> initAction, before |-> Undef,
                   after |-> reducer(Undef, initAction), listeners |-> <<>>,
                   handles |-> <<>>, prevText |-> Undef, rendered |-> 0,
                   plainRendered |-> 0, comps |-> [c \in Comps |-> NoComp]]
        /\ actionLog = <<>>
        /\ op = NoOp
        /\ driver = [userInput |-> input, index |-> 0, nextIsRandom |-> FALSE,
                     interval |-> "set", program |-> program]
        /\ ev = NoEv
        /\ stack = <<>>

NextDriver ==
  \/ Tick
  \/ TickChars

SpecDriver == InitDriver /\ [][NextDriver]_vars

\* the timer keeps firing for as long as it is installed
SpecDriverFair == InitDriver /\ [][NextDriver]_vars /\ WF_vars(NextDriver)

\* createStore(reducer): the state is reducer(undefined, INIT); nothing is
\* subscribed, nothing rendered, no component constructed
Init ==
  /\ state = reducer(Undef, initAction)
  /\ listeners = <<>>
  /\ handles = <<>>
  /\ prevText = Undef
  /\ rendered = <<>>
  /\ seen = <<>>
  /\ plainRendered = <<>>
  /\ comps = [c \in Comps |-> NoComp]
  /\ calls = <<>>
  /\ last = [n |-> 0, action |-> initAction, before |-> Undef,
             after |-> reducer(Undef, initAction), listeners |-> <<>>,
             handles |-> <<>>, prevText |-> Undef, rendered |-> 0,
             plainRendered |-> 0, comps |-> [c \in Comps |-> NoComp]]
  /\ actionLog = <<>>
  /\ op = NoOp
  /\ driver = NoDriver
  /\ ev = NoEv
  /\ stack = <<>>

\* basic.js: the store, the change-detecting render and any run of actions
Next ==
  \/ \E action \in Actions :
       Len(actionLog) < MaxDispatch /\ Dispatch(action) /\ Quiet
  \/ Len(handles) < MaxHandles /\ SubscribeRender /\ Quiet
  \/ \E h \in 1 .. Len(handles) : CallHandle(h) /\ Quiet

Spec == Init /\ [][Next]_vars

\* the store with both console renderers subscribing and unsubscribing
NextStore ==
  \/ \E action \in Actions :
       Len(actionLog) < MaxStoreDispatch /\ Dispatch(action) /\ Quiet
  \/ Len(handles) < MaxStoreHandles /\ SubscribeRender /\ Quiet
  \/ Len(handles) < MaxStoreHandles /\ SubscribeRenderPlain /\ Quiet
  \/ \E h \in 1 .. Len(handles) : CallHandle(h) /\ Quiet

SpecStore == Init /\ [][NextStore]_vars

\* the store driven by React components that mount and unmount
NextReact ==
  \/ \E action \in Actions :
       Len(actionLog) < MaxReactDispatch /\ Dispatch(action) /\ Quiet
  \/ \E c \in Comps : ViewConstructor(c) /\ Quiet
  \/ \E c \in Comps : ConnectedConstructor(c) /\ Quiet
  \/ \E c \in Comps : ViewComponentWillUnmount(c) /\ Quiet
  \/ \E c \in Comps : ConnectedComponentWillUnmount(c) /\ Quiet

SpecReact == Init /\ [][NextReact]_vars

\* components of which one may render another, so that a re-render can unmount
NextNested ==
  \/ NextReact
  \/ \E action \in Actions, p \in Comps, c \in Comps :
       Len(actionLog) < MaxReactDispatch /\ DispatchUnmounting(action, p, c)

SpecNested == Init /\ [][NextNested]_vars

\* the store, both console renders and the components, a dispatch taken one
\* listener call at a time; top-level code runs only between dispatches
NextSteps ==
  \/ \E action \in Actions :
       Len(actionLog) < MaxStepDispatch /\ DispatchBegin(action)
  \/ NotifyStep
  \/ DispatchEnd
  \/ stack = <<>> /\ Len(handles) < MaxStepHandles /\ SubscribeRender /\ Quiet
  \/ stack = <<>> /\ Len(handles) < MaxStepHandles /\ SubscribeRenderPlain
       /\ Quiet
  \/ \E c \in Comps :
       stack = <<>> /\ Len(handles) < MaxStepHandles /\ ViewConstructor(c)
         /\ Quiet
  \/ \E c \in Comps :
       stack = <<>> /\ Len(handles) < MaxStepHandles /\ ConnectedConstructor(c)
         /\ Quiet

SpecSteps == Init /\ [][NextSteps]_vars

\* the constructor of a ConnectedComponent has returned, for any props and
\* any mapState and actionsToDispatch: component 1 holds the derived state,
\* its subscription to the store and the bound actions, and is about to be
\* rendered
InitRender ==
  /\ state = reducer(Undef, initAction)
  /\ prevText = Undef
  /\ rendered = <<>>
  /\ seen = <<>>
  /\ plainRendered = <<>>
  /\ calls = <<>>
  /\ last = [n |-> 0, action |-> initAction, before |-> Undef,
             after |-> reducer(Undef, initAction), listeners |-> <<>>,
             handles |-> <<>>, prevText |-> Undef, rendered |-> 0,
             plainRendered |-> 0, comps |-> [c \in Comps |-> NoComp]]
  /\ actionLog = <<>>
  /\ driver = NoDriver
  /\ stack = <<>>
  /\ LET s == subscribe(<<>>, <<>>, connectedCb(1))
     IN  /\ listeners = s.listeners
         /\ handles = s.handles
         /\ op = [name |-> "subscribe", h |-> s.handle,
                  wasSubscribed |-> FALSE, listeners |-> <<>>,
                  state |-> reducer(Undef, initAction)]
         /\ \E props \in ParentProps, st \in DerivedStates,
               actions \in BoundActions :
              /\ comps = [c \in Comps |->
                   IF c = 1
                     THEN [status |-> "mounted", kind |-> "connected",
                           state |-> st, cancelSubscription |-> s.handle,
                           keyup |-> FALSE,
                           actions |-> [n \in DOMAIN actions |->
                                          actions[n].bound]]
                     ELSE NoComp]
              /\ ev = [kind |-> "constructed", comp |-> 1, name |-> "",
                       arg |-> <<>>, dispatched |-> 0, state |-> Undef,
                       threw |-> FALSE, props |-> props, derived |-> st,
                       actions |-> actions, passed |-> NoActions]

NextRender == ConnectedRender

SpecRender == InitRender /\ [][NextRender]_vars

\* components mounted and unmounted, driven by the keyboard
NextKeys ==
  \/ \E c \in Comps : ViewConstructor(c) /\ Quiet
  \/ \E c \in Comps : ConnectedConstructor(c) /\ Quiet
  \/ \E c \in Comps : ViewComponentWillUnmount(c) /\ Quiet
  \/ \E c \in Comps : ConnectedComponentWillUnmount(c) /\ Quiet
  \/ \E c \in Comps, key \in Keys :
       Len(actionLog) < MaxKeyDispatch /\ KeyUp(c, key)

SpecKeys == Init /\ [][NextKeys]_vars

\* connected components mounted and unmounted, and calls of the actions they
\* bound, before and after the unmount
NextBound ==
  \/ \E c \in Comps : ConnectedConstructor(c) /\ Quiet
  \/ \E c \in Comps : ConnectedComponentWillUnmount(c) /\ Quiet
  \/ \E c \in Comps, name \in DOMAIN ActionsToDispatch, args \in BoundArgs :
       Len(actionLog) < MaxKeyDispatch /\ InvokeBound(c, name, args)

SpecBound == Init /\ [][NextBound]_vars

\* components mounted under a Provider or, as part_001 does, with a store prop
NextMount ==
  \/ \E action \in Actions :
       Len(actionLog) < MaxReactDispatch /\ Dispatch(action) /\ Quiet
  \/ \E c \in Comps : ViewConstructor(c) /\ Quiet
  \/ \E c \in Comps : ConnectedConstructor(c) /\ Quiet
  \/ \E c \in Comps : ConnectedConstructorNoContext(c)
  \/ \E c \in Comps : ViewComponentWillUnmount(c) /\ Quiet
  \/ \E c \in Comps : ConnectedComponentWillUnmount(c) /\ Quiet

SpecMount == Init /\ [][NextMount]_vars

\* the store handed well-formed and malformed actions
NextMalformed ==
  \/ \E action \in Actions \cup MalformedActions :
       Len(actionLog) < MaxDispatch /\ StoreDispatch(action)
  \/ Len(handles) < MaxHandles /\ SubscribeRender /\ Quiet

SpecMalformed == Init /\ [][NextMalformed]_vars

----------------------------------------------------------------------------
(* Vocabulary of the properties *)

EditTypes == {"CHARACTER_TYPED", "BACKSPACE"}

\* the reference editor: append on CHARACTER_TYPED, drop the last on BACKSPACE
RECURSIVE Edited(_)
Edited(log) ==
  IF log = <<>> THEN <<>>
  ELSE LET text == Edited(SubSeq(log, 1, Len(log) - 1))
           a    == log[Len(log)]
       IN  IF a.type = "CHARACTER_TYPED" THEN text \o a.char.val
           ELSE IF text = <<>> THEN <<>>
           ELSE [i \in 1 .. (Len(text) - 1) |-> text[i]]

\* a sequence with every run of equal consecutive values collapsed to one
RECURSIVE Collapse(_)
Collapse(xs) ==
  IF Len(xs) <= 1 THEN xs
  ELSE LET front == Collapse(SubSeq(xs, 1, Len(xs) - 1))
       IN  IF xs[Len(xs)] = xs[Len(xs) - 1] THEN front
           ELSE Append(front, xs[Len(xs)])

\* the listeners the most recent dispatch called, in call order
Called == [i \in 1 .. Len(calls) |-> calls[i].listener]

\* the closures in hs that still hold a registration of listener
Live(hs, listener) ==
  {h \in 1 .. Len(hs) : hs[h].listener = listener /\ hs[h].isSubscribed}
\* the closures in hs that store.subscribe(listener) returned
Returned(hs, listener) == {h \in 1 .. Len(hs) : hs[h].listener = listener}

\* the listener component c registered, by the class it was constructed from
CompCb(k, c) == IF k = "view" THEN viewCb(c) ELSE connectedCb(c)

Mounted == {c \in Comps : comps[c].status = "mounted"}

----------------------------------------------------------------------------
(* Properties *)

\* C1: after any run of CHARACTER_TYPED and BACKSPACE actions dispatched from
\* the empty string the store state is what the reference editor gives for
\* that run; BACKSPACE on the empty string leaves it empty.
C1_NetEditEffect ==
  (\A i \in 1 .. Len(actionLog) : actionLog[i].type \in EditTypes)
    => state = Str(Edited(actionLog))

C1_Witness ==
  /\ actionLog = <<insertCharacter(Str(<<"a">>)), insertCharacter(Str(<<"b">>)),
                   removeCharacter>>
  /\ state = Str(<<"a">>)

\* C2: a dispatched action whose type is neither CHARACTER_TYPED nor BACKSPACE
\* leaves the store state exactly as it was.
C2_UnknownActionKeepsState ==
  (last.n > 0 /\ last.action.type \notin EditTypes) => state = last.before

C2_Witness ==
  /\ last.n > 0
  /\ last.action.type \notin EditTypes
  /\ last.before /= Str(<<>>)
  /\ state = last.before

\* C3: the values the change-detecting render passes to View are the store
\* states it saw at its notifications with equal consecutive values collapsed:
\* once per distinct consecutive value, never the same value twice in a row.
C3_RenderedOncePerDistinctValue ==
  /\ rendered = Collapse(seen)
  /\ \A i \in 1 .. (Len(rendered) - 1) : rendered[i] /= rendered[i + 1]

C3_Witness ==
  /\ Len(seen) = 3
  /\ seen[2] = seen[3]
  /\ Len(rendered) = 2

\* C4 as stated: with the change-detecting render subscribed, a dispatch that
\* leaves the store state unchanged never invokes View, the very first
\* dispatch included.
C4_Original ==
  (last.n > 0 /\ renderCb \in Range(last.listeners) /\ last.after = last.before)
    => Len(rendered) = last.rendered

\* C4 amended: a dispatch that leaves the store state unchanged invokes View
\* zero times when render has already rendered that value (prevText equals the
\* state); while prevText is still undefined the first notification invokes
\* View exactly once, also when the action changed nothing.
C4_SkipsOnceRendered ==
  /\ (last.n > 0 /\ last.after = last.before /\ last.prevText = last.before)
       => Len(rendered) = last.rendered
  /\ (last.n > 0 /\ renderCb \in Range(last.listeners) /\ last.prevText = Undef)
       => Len(rendered) = last.rendered + 1

C4_Witness ==
  /\ last.n = 3
  /\ last.action.type \notin EditTypes
  /\ renderCb \in Range(last.listeners)
  /\ last.prevText = last.before
  /\ last.before = Str(<<>>)
  /\ Len(rendered) = 2
  /\ last.rendered = 2

\* C5: every dispatch, one that changes nothing included, first replaces the
\* state with reducer(state, action) and then calls each registered listener
\* exactly once in registration order; each listener reads the new state, and
\* the unconditional render prints it.
C5_ReduceThenNotifyInOrder ==
  last.n > 0 =>
    /\ last.after = reducer(last.before, last.action)
    /\ Called = last.listeners
    /\ \A i \in 1 .. Len(calls) : calls[i].saw = last.after
    /\ Len(plainRendered) = last.plainRendered + Count(last.listeners, plainCb)
    /\ \A i \in (last.plainRendered + 1) .. Len(plainRendered) :
         plainRendered[i] = last.after

C5_Witness ==
  /\ last.n > 0
  /\ last.listeners = <<renderCb, plainCb>>
  /\ last.action.type \notin EditTypes
  /\ last.before /= Str(<<>>)
  /\ Called = <<renderCb, plainCb>>

\* C6: once a component has called the unsubscribe function it got from
\* subscribe, the listener array no longer holds its listener and no later
\* dispatch calls it; every component still subscribed is still called.
C6_UnsubscribedNotCalled ==
  \A c \in Comps :
    /\ comps[c].status = "dead" =>
         CompCb(comps[c].kind, c) \notin Range(listeners)
    /\ (last.n > 0 /\ last.comps[c].status = "dead") =>
         \A i \in 1 .. Len(calls) : calls[i].listener.comp /= c
    /\ (last.n > 0 /\ last.comps[c].status = "mounted") =>
         Count(Called, CompCb(last.comps[c].kind, c)) = 1

C6_Witness ==
  /\ last.n > 0
  /\ \E c, d \in Comps :
       /\ last.comps[c].status = "dead"
       /\ last.comps[d].status = "mounted"
       /\ Called = <<CompCb(last.comps[d].kind, d)>>

\* C7: the derived props of every mounted connected component equal
\* mapState(store.getState()) right after construction and after every
\* dispatch, for every run and every component on the store.
C7_DerivedPropsInSync ==
  \A c \in Comps :
    (comps[c].status = "mounted" /\ comps[c].kind = "connected")
      => comps[c].state = mapState(state)

C7_Witness ==
  /\ last.n = 2
  /\ last.before /= last.after
  /\ state /= Str(<<>>)
  /\ \A c \in {1, 2} :
       /\ comps[c].status = "mounted" /\ comps[c].kind = "connected"
       /\ last.comps[c].status = "mounted"
       /\ comps[c].state.text = state

\* C8: a component is subscribed exactly while it is mounted: its unsubscribe
\* handle is live from construction to unmount and spent afterwards, so the
\* store holds exactly one listener per mounted component and none of a dead
\* one.
C8_OneListenerPerMountedComponent ==
  /\ Len(listeners) = Cardinality(Mounted)
  /\ \A c \in Comps :
       /\ Count(listeners, viewCb(c)) =
            (IF c \in Mounted /\ comps[c].kind = "view" THEN 1 ELSE 0)
       /\ Count(listeners, connectedCb(c)) =
            (IF c \in Mounted /\ comps[c].kind = "connected" THEN 1 ELSE 0)
       /\ comps[c].status = "none" => comps[c].cancelSubscription = 0
       /\ comps[c].status /= "none" =>
            /\ comps[c].cancelSubscription \in 1 .. Len(handles)
            /\ handles[comps[c].cancelSubscription].listener
                 = CompCb(comps[c].kind, c)
            /\ handles[comps[c].cancelSubscription].isSubscribed
                 = (c \in Mounted)

C8_Witness ==
  \E c, d \in Comps :
    /\ comps[c].status = "dead" /\ comps[c].kind = "view"
    /\ comps[d].status = "mounted" /\ comps[d].kind = "connected"
    /\ listeners = <<connectedCb(d)>>

\* C9: calling an unsubscribe function again is a no-op: it removes no
\* listener, another registration of the same callback included, and leaves
\* the listener array and the store state as they were.
C9_SecondUnsubscribeNoOp ==
  (op.name = "unsubscribe" /\ ~op.wasSubscribed)
    => /\ listeners = op.listeners
       /\ state = op.state
       /\ ~handles[op.h].isSubscribed

C9_Witness ==
  /\ op.name = "unsubscribe"
  /\ ~op.wasSubscribed
  /\ Live(handles, handles[op.h].listener) /= {}
  /\ listeners = <<handles[op.h].listener>>

\* C10: a callback subscribed k times is called k times per dispatch, and
\* each returned unsubscribe function removes one registration: with j of
\* them called the callback is called k - j times per dispatch.
C10_OneRegistrationPerHandle ==
  \A listener \in {renderCb, plainCb} :
    /\ Count(listeners, listener) = Cardinality(Live(handles, listener))
    /\ last.n > 0 =>
         Count(Called, listener) = Cardinality(Live(last.handles, listener))

C10_Witness ==
  /\ last.n > 0
  /\ Cardinality(Returned(last.handles, renderCb)) = 2
  /\ Cardinality(Live(last.handles, renderCb)) = 1
  /\ Count(Called, renderCb) = 1
  /\ Len(actionLog) = 2

\* C11: connect passes the wrapped component one callable per name of
\* actionsToDispatch and no other; each call with arguments args dispatches
\* exactly one action, the one actionsToDispatch[name](args) returns.
C11_BoundActionsDispatchOnce ==
  /\ \A c \in Comps :
       comps[c].kind = "connected" =>
         DOMAIN comps[c].actions = DOMAIN ActionsToDispatch
  /\ ev.kind = "bound" =>
       /\ Len(actionLog) = ev.dispatched + 1
       /\ last.n = Len(actionLog)
       /\ last.action = create(ActionsToDispatch[ev.name], ev.arg)
       /\ state = reducer(ev.state, create(ActionsToDispatch[ev.name], ev.arg))

C11_Witness ==
  /\ ev.kind = "bound"
  /\ ev.name = "insertCharacter"
  /\ ev.arg = <<Str(<<"b">>)>>
  /\ ev.state = Str(<<"a">>)
  /\ state = Str(<<"a", "b">>)
  /\ comps[ev.comp].state.text = state

\* C12: a component made by connect gives its four guarantees however the
\* store reaches it, as a store prop or through the context: it is
\* constructed with mapState of the store state, subscribed while mounted,
\* holds the bound actions, and is unsubscribed once unmounted.
C12_SameGuaranteesEitherWay ==
  \A c \in Comps :
    comps[c].kind = "connected" =>
      /\ comps[c].status /= "failed"
      /\ comps[c].status = "mounted" =>
           /\ comps[c].state = mapState(state)
           /\ Count(listeners, connectedCb(c)) = 1
           /\ DOMAIN comps[c].actions = DOMAIN ActionsToDispatch
      /\ comps[c].status = "dead" => Count(listeners, connectedCb(c)) = 0

\* C13: dispatching a malformed action, one without a type or a
\* CHARACTER_TYPED without char, raises no error and leaves the store state
\* as it was.
C13_MalformedActionNoOp ==
  /\ (ev.kind = "dispatch" /\ ev.threw) => FALSE
  /\ (ev.kind = "dispatch" /\ ~ev.threw /\ last.action \in MalformedActions)
       => state = last.before

\* C14: a keyup event delivered to a mounted view dispatches exactly one
\* BACKSPACE when the key is 'Backspace', exactly one CHARACTER_TYPED carrying
\* the key when the key is one character long, and nothing otherwise, the
\* store state then staying as it was.
C14_KeyUpDispatch ==
  ev.kind = "keyup" =>
    IF ev.arg = KeyBackspace
      THEN /\ Len(actionLog) = ev.dispatched + 1
           /\ last.n = Len(actionLog)
           /\ last.action = [type |-> "BACKSPACE", char |-> Undef]
    ELSE IF Len(ev.arg) = 1
      THEN /\ Len(actionLog) = ev.dispatched + 1
           /\ last.n = Len(actionLog)
           /\ last.action = [type |-> "CHARACTER_TYPED", char |-> Str(ev.arg)]
    ELSE /\ Len(actionLog) = ev.dispatched
         /\ state = ev.state

C14_Witness ==
  /\ ev.kind = "keyup"
  /\ ev.arg = KeyEnter
  /\ comps[ev.comp].kind = "connected"
  /\ Len(actionLog) = 1
  /\ actionLog[1].type = "BACKSPACE"
  /\ \E c \in Comps : comps[c].kind = "view" /\ comps[c].status = "mounted"

\* what the unconditional render prints when the timer types input one
\* character per tick: the text after each character, in order
RECURSIVE SimpleRun(_, _, _)
SimpleRun(input, st, w) ==
  IF input = <<>> THEN w.plainRendered
  ELSE LET next == reducer(st, insertCharacter(Str(<<Head(input)>>)))
       IN  SimpleRun(Tail(input), next, renderPlain(w, next))

SimpleOutput(input) ==
  SimpleRun(input, reducer(Undef, initAction),
            [plainRendered |-> <<>>])

typed == SubSeq(driver.userInput, 1, driver.index)

\* C15: what the change-detecting render of basic.js prints under the timer
\* that interleaves RANDOM actions is exactly what the unconditional render
\* prints under the timer that types the characters only: one output per
\* character typed so far, in order.
C15_SameOutputAsUnconditional ==
  /\ driver.program = "basic" => rendered = SimpleOutput(typed)
  /\ driver.program = "simple" => plainRendered = SimpleOutput(typed)
  /\ driver.program \in {"basic", "simple"} =>
       Len(SimpleOutput(typed)) = driver.index

C15_Witness ==
  /\ driver.program = "basic"
  /\ driver.userInput = UserInput
  /\ driver.interval = "cleared"
  /\ Len(rendered) = Len(UserInput)
  /\ Len(seen) > Len(rendered)

\* C16: the store state changes only through dispatch. A step that is no
\* dispatch (a subscribe or an unsubscribe) leaves the state as it was and
\* invokes no listener, and a dispatch whose listeners neither subscribe nor
\* unsubscribe leaves the listener collection as it was.
C16_StateChangesOnlyThroughDispatch ==
  [][ /\ state' /= state => actionLog' = Append(actionLog, last'.action)
      /\ actionLog' = actionLog =>
           /\ state' = state
           /\ calls' = calls
           /\ seen' = seen
           /\ rendered' = rendered
           /\ plainRendered' = plainRendered
           /\ prevText' = prevText
      /\ actionLog' /= actionLog =>
           /\ listeners' = listeners
           /\ handles' = handles
    ]_vars

C16_Witness ==
  /\ op.name = "unsubscribe"
  /\ op.wasSubscribed
  /\ op.listeners /= listeners
  /\ Len(actionLog) = MaxStoreDispatch
  /\ state /= Str(<<>>)
  /\ Len(rendered) > 0
  /\ Len(plainRendered) > 0

\* C17: once a subscribing component has been unmounted its subscription
\* callback is not invoked again and its cached state is not set again, also
\* when it is unmounted while a dispatch is part-way through its listeners.
C17_DeadComponentNotCalled ==
  \A c \in Comps :
    /\ (last.n > 0 /\ last.comps[c].status = "dead") =>
         /\ \A i \in 1 .. Len(calls) : calls[i].listener.comp /= c
         /\ comps[c].state = last.comps[c].state
    /\ (ev.kind = "unmount" /\ ev.comp = c) =>
         /\ \A i \in 1 .. Len(calls) : calls[i].listener.comp /= c
         /\ comps[c].state = last.comps[c].state

\* C18: in basic.js, when a dispatch has finished notifying, prevText equals
\* store.getState() and is the value View was last called with, whatever
\* actions were dispatched.
C18_PrevTextIsState ==
  (last.n > 0 /\ renderCb \in Range(last.listeners)) =>
    /\ prevText = state
    /\ rendered /= <<>>
    /\ rendered[Len(rendered)] = state

C18_Witness ==
  /\ last.n = MaxDispatch
  /\ renderCb \in Range(last.listeners)
  /\ last.action.type = "RANDOM"
  /\ last.prevText = state
  /\ state /= Str(<<>>)
  /\ Len(rendered) = 2

\* C19: the simulated input stops. While the timer keeps firing, index
\* reaches userInput.length after finitely many ticks and the interval is
\* cleared for good; once index has reached userInput.length nothing is
\* dispatched any more, nextIsRandom being set or not.
C19_DriverTerminates ==
  /\ <>[](/\ driver.interval = "cleared"
          /\ driver.index = Len(driver.userInput))
  /\ [][driver.index = Len(driver.userInput) =>
          /\ actionLog' = actionLog
          /\ driver'.index = driver.index]_vars

C19_Witness ==
  /\ driver.program = "basic"
  /\ driver.interval = "cleared"
  /\ driver.nextIsRandom
  /\ driver.index = RandomEvery
  /\ Len(actionLog) = RandomEvery

\* C20: while the simulated input runs the store state is the first index
\* characters of userInput; a RANDOM tick changes neither index nor the
\* state; RANDOM is dispatched only when index is a positive multiple of 5
\* and never on two ticks in a row; when the timer has stopped the state is
\* userInput in full.
C20_StateIsTypedPrefix ==
  /\ [](/\ state = Str(typed)
        /\ driver.interval = "cleared" => state = Str(driver.userInput))
  /\ [][(actionLog' /= actionLog /\ last'.action.type = "RANDOM") =>
          /\ driver'.index = driver.index
          /\ state' = state
          /\ driver.index > 0
          /\ driver.index % RandomEvery = 0
          /\ last.n > 0
          /\ last.action.type /= "RANDOM"]_vars

C20_Witness ==
  /\ driver.program = "basic"
  /\ driver.userInput = UserInput
  /\ driver.interval = "cleared"
  /\ Len(actionLog) = Len(UserInput) + 5
  /\ actionLog[6].type = "RANDOM"
  /\ state = Str(UserInput)

\* C21: no listener of the repository dispatches, so store.dispatch is never
\* entered during a notification: at most one dispatch is in progress, and
\* while it notifies, the state is the one its action produced and the
\* listeners called so far and still to call are the ones it began with.
C21_NoDispatchWhileNotifying ==
  /\ Len(stack) <= 1
  /\ stack /= <<>> =>
       /\ last.n = Len(actionLog)
       /\ stack[1].action = last.action
       /\ state = last.after
       /\ Called \o stack[1].pending = last.listeners
  /\ \A i \in 1 .. Len(calls) : calls[i].saw = last.after

C21_Witness ==
  /\ Len(stack) = 1
  /\ Len(actionLog) = MaxStepDispatch
  /\ Called = <<renderCb>>
  /\ \E c \in Comps : stack[1].pending = <<connectedCb(c)>>
  /\ last.before /= last.after
  /\ Len(rendered) = 2

\* C22: the keyup handler of the stateful View is on the document exactly
\* while the component is mounted. A Backspace or one-character key handled
\* by a mounted View is dispatched; once componentWillUnmount has run no key
\* reaches the component's handler and no dispatch changes its text.
C22_KeyupWhileMounted ==
  \A c \in Comps :
    comps[c].kind = "view" =>
      /\ comps[c].keyup <=> comps[c].status = "mounted"
      /\ (ev.kind = "keyup" /\ ev.comp = c) =>
           /\ comps[c].status = "mounted"
           /\ (ev.arg = KeyBackspace \/ Len(ev.arg) = 1) =>
                /\ Len(actionLog) = ev.dispatched + 1
                /\ last.n = Len(actionLog)
                /\ comps[c].state.text = state
      /\ (last.n > 0 /\ last.comps[c].status = "dead") =>
           comps[c].state = last.comps[c].state

C22_Witness ==
  \E c, d \in Comps :
    /\ comps[c].kind = "view" /\ comps[c].status = "dead"
    /\ comps[d].kind = "view" /\ comps[d].status = "mounted"
    /\ last.comps[c].status = "dead"
    /\ ev.kind = "keyup" /\ ev.comp = d
    /\ Len(actionLog) = MaxKeyDispatch
    /\ actionLog[1].type = "CHARACTER_TYPED"
    /\ comps[c].state.text /= state
    /\ comps[c].state.text /= Str(<<>>)

\* C23: the props a connected component passes on are the parent's props
\* overlaid by the derived state and then by the bound actions: under a name
\* they share the bound action wins over the derived state and the derived
\* state over the parent's prop, and a parent prop under a name of its own
\* is passed on as it is.
C23_ActionsOverStateOverProps ==
  ev.kind = "rendered" =>
    /\ DOMAIN ev.passed =
         DOMAIN ev.props \cup DOMAIN ev.derived \cup DOMAIN ev.actions
    /\ \A k \in DOMAIN ev.passed :
         ev.passed[k] =
           IF k \in DOMAIN ev.actions THEN ev.actions[k]
           ELSE IF k \in DOMAIN ev.derived THEN ev.derived[k]
           ELSE ev.props[k]

C23_Witness ==
  /\ ev.kind = "rendered"
  /\ DOMAIN ev.props = PropNames
  /\ DOMAIN ev.derived = {"text", "insertCharacter"}
  /\ DOMAIN ev.actions = {"insertCharacter"}
  /\ ev.props["text"] /= ev.derived["text"]
  /\ ev.passed["text"] = ev.derived["text"]
  /\ ev.passed["insertCharacter"] = callable("insertCharacter")
  /\ ev.passed["title"] = ev.props["title"]

====
